---- MODULE Spec2Model ----
(***************************************************************************)
(* Models of the command-line tools of the repository.                     *)
(*                                                                         *)
(*   DeleteSpec  delete_forgotten_rooms.py: the room deletion tool          *)
(*   StableSpec  the same tool against a homeserver whose listing is       *)
(*               stable, with fairness                                      *)
(*   NameSpec    set_display_name_in_matrix_space.py: the display name      *)
(*               changer                                                    *)
(*   PhotoSpec   sort_photos.py: the photo sorter                           *)
(*                                                                         *)
(* The homeserver is the environment: every response a request can get is  *)
(* a nondeterministic choice.  A JSON object is a function from its keys,  *)
(* so that a key the code reads and the body lacks is a KeyError.          *)
(***************************************************************************)
EXTENDS Integers, Sequences, FiniteSets, TLC

VARIABLES
    \* ---- delete_forgotten_rooms.py
    BATCH_SIZE,      \* args.batch_size
    deleted_rooms,   \* the tally of the current batch
    rooms,           \* the page being processed
    room_i,          \* position of `for room in rooms`
    res,             \* the last response received
    del_id,          \* delete_id of the deletion being watched
    status,          \* status of the deletion being watched
    last_res_json,   \* body of the last status response
    pc,              \* control point of the script
    exit_code,       \* process exit status once pc = "exited"
    raised,          \* the exception that ended the run, if any
    trace,           \* requests and sleeps of the current batch, in order
    answers,         \* statuses reported so far for the deletion being watched
    printed,         \* what the last step wrote to standard output
    n_list,          \* listing requests issued since the start of the run
    population,      \* the rooms of the homeserver, where the run models them
    \* ---- set_display_name_in_matrix_space.py
    user_id,         \* Client.user_id (args.user_id)
    space,           \* args.space
    base_url,        \* Client.base_url
    joined_rooms,    \* Client.joined_rooms
    rooms_in_space,  \* Client.rooms_in_space: a dict, as its items in insertion order
    space_id,        \* local of find_rooms_in_space
    members,         \* local of _dm_rooms_in_space: the space's roster
    resp,            \* local: the body of the last response of the discovery code
    room_j,          \* position of `for room_id in self.joined_rooms`
    pbar,            \* progress of the scan
    choice,          \* the operator's answer to the prompt
    evt_content,     \* local of change_display_name
    put_i,           \* position of `for room_id, room_name in self.rooms_in_space.items()`
    tbar,            \* progress of the update pass
    \* ---- sort_photos.py
    files,           \* os.listdir(args.path)
    n_files,         \* the number of files to move
    files_to_move,   \* a dict from directory path to file names, as its items
    file_k,          \* position of `for file in files` (the scan)
    bucket_k,        \* position of `for dir_path, files in files_to_move.items()`
    move_k,          \* position of `for file in files` (the move); 0 before mkdir
    located,         \* the file system: the directory each entry is in
    dirs,            \* the file system: the directories created under args.path
    ticks            \* pbar.n

\* the state of the process, whichever script it runs
proc_vars == <<pc, exit_code, raised, trace, printed>>

del_vars == <<BATCH_SIZE, deleted_rooms, rooms, room_i, res, del_id, status,
              last_res_json, answers, n_list>>

name_vars == <<user_id, space, base_url, joined_rooms, rooms_in_space, space_id,
               members, resp, room_j, pbar, choice, evt_content, put_i, tbar>>

photo_vars == <<files, n_files, files_to_move, file_k, bucket_k, move_k, located,
                dirs, ticks>>

\* everything but the variables of one script
not_del_vars == <<name_vars, photo_vars, population>>
not_name_vars == <<del_vars, photo_vars, population>>
not_photo_vars == <<del_vars, name_vars, population>>

vars == <<proc_vars, del_vars, name_vars, photo_vars, population>>

\* ------------------------------------------------------------------ bounds
MaxBatch == 2
MaxListings == 2
MaxPolls == 3

\* ------------------------------------------------------- the environment
RoomIds == {"!a", "!b", "!c"}
JoinedCounts == {0, 1}
DeleteIds == {"d1", "d2"}
Statuses == {"purging", "complete", "failed"}

NoException == "none"
EmptyJson == [k \in {} |-> 0]
\* a Synapse error body: it has an errcode and no other field the script reads
ErrorJson == [errcode |-> "M_UNKNOWN"]

RoomSummaries == [room_id : RoomIds, joined_local_members : JoinedCounts]

\* A listing page: at most `limit` rooms, each room at most once.
Pages(limit) ==
    { p \in UNION { [1..n -> RoomSummaries] : n \in 0..limit } :
        \A i, j \in 1..Len(p) : i # j => p[i].room_id # p[j].room_id }

ListResponses(limit) ==
    {[ok |-> FALSE, json |-> ErrorJson]}
        \cup { [ok |-> TRUE, json |-> [rooms |-> p]] : p \in Pages(limit) }

DeleteResponses ==
    {[ok |-> FALSE, json |-> ErrorJson]}
        \cup { [ok |-> TRUE, json |-> [delete_id |-> d]] : d \in DeleteIds }

StatusResponses ==
    { [ok |-> TRUE, json |-> [status |-> s]] : s \in Statuses }
        \cup { [ok |-> FALSE, json |-> b] :
                 b \in {ErrorJson} \cup { [status |-> s] : s \in Statuses } }

\* ------------------------------------------------------- trace entries
ReqList == [op |-> "GET rooms"]
ReqDelete(r) == [op |-> "DELETE room", room_id |-> r]
Sleep == [op |-> "sleep"]
ReqStatus(d) == [op |-> "GET delete_status", delete_id |-> d]

\* ------------------------------------------------------- helpers
RECURSIVE ZeroCount(_)
\* the number of rooms of a page with no joined local member
ZeroCount(p) ==
    IF p = <<>> THEN 0
    ELSE (IF Head(p).joined_local_members = 0 THEN 1 ELSE 0) + ZeroCount(Tail(p))

\* the status requests issued for the deletion being watched: those after
\* the last DELETE of the trace
LastDelete ==
    LET S == { i \in 1..Len(trace) : trace[i].op = "DELETE room" }
    IN  IF S = {} THEN 0 ELSE CHOOSE i \in S : \A j \in S : j <= i
StatusRequests ==
    { i \in (LastDelete + 1)..Len(trace) : trace[i].op = "GET delete_status" }

\* ------------------------------------------------------- the script
\* the display name changer is not running
NameIdle ==
    /\ user_id = <<>>
    /\ space = <<>>
    /\ base_url = <<>>
    /\ joined_rooms = <<>>
    /\ rooms_in_space = <<>>
    /\ space_id = <<>>
    /\ members = <<>>
    /\ resp = <<>>
    /\ room_j = 0
    /\ pbar = 0
    /\ choice = <<>>
    /\ evt_content = <<>>
    /\ put_i = 0
    /\ tbar = 0

\* the photo sorter is not running
PhotoIdle ==
    /\ files = <<>>
    /\ n_files = 0
    /\ files_to_move = <<>>
    /\ file_k = 0
    /\ bucket_k = 0
    /\ move_k = 0
    /\ located = <<>>
    /\ dirs = {}
    /\ ticks = 0

\* the script starts; the homeserver is whatever its responses say
ScriptStart ==
    /\ BATCH_SIZE \in 1..MaxBatch
    /\ deleted_rooms = BATCH_SIZE
    /\ rooms = <<>>
    /\ room_i = 0
    /\ res = [ok |-> TRUE, json |-> EmptyJson]
    /\ del_id = ""
    /\ status = ""
    /\ last_res_json = EmptyJson
    /\ pc = "while"
    /\ exit_code = 0
    /\ raised = NoException
    /\ trace = <<>>
    /\ answers = <<>>
    /\ printed = <<>>
    /\ n_list = 0
    /\ NameIdle
    /\ PhotoIdle

DelInit ==
    /\ ScriptStart
    /\ population = {}

\* mutant: the loop goes on as long as the page deleted anything
LoopConditionAnyDeleted == deleted_rooms > 0

\* while deleted_rooms == BATCH_SIZE
LoopCondition == deleted_rooms = BATCH_SIZE

\* mutant: a room with a single local member is not skipped
SkipConditionMoreThanOne(room) == room.joined_local_members > 1

\* if room["joined_local_members"] != 0: continue
SkipCondition(room) == room.joined_local_members # 0

\* mutant: the deletion is requested and not waited for
PollConditionNever(st) == FALSE

\* mutant: the loop polls until the deletion is complete
PollConditionNotComplete(st) == st # "complete"

\* while status == "purging"
PollCondition(st) == st = "purging"

\* mutant: only an accepted deletion request is counted
CountRoomIfAccepted == deleted_rooms' = deleted_rooms + (IF res'.ok THEN 1 ELSE 0)

\* deleted_rooms += 1, before the DELETE request and whatever its outcome
CountRoom == deleted_rooms' = deleted_rooms + 1

\* lines 44-59: the loop test holds, the next page is requested
ListRooms ==
    /\ pc = "while"
    /\ LoopCondition
    /\ n_list < MaxListings
    /\ \E r \in ListResponses(BATCH_SIZE) :
        /\ res' = r
        /\ trace' = <<ReqList>>
        /\ n_list' = n_list + 1
        /\ IF ~r.ok
           THEN /\ printed' = <<[msg |-> "Failed to retrieve more rooms", json |-> r.json]>>
                /\ pc' = "exited"
                /\ exit_code' = 1
                /\ raised' = "SystemExit"
                /\ UNCHANGED <<rooms, deleted_rooms, room_i>>
           ELSE /\ rooms' = r.json["rooms"]
                /\ printed' = <<[msg |-> "Retrieved more rooms", n |-> Len(r.json["rooms"])]>>
                /\ deleted_rooms' = 0
                /\ room_i' = 1
                /\ pc' = "for"
                /\ UNCHANGED <<exit_code, raised>>
    /\ UNCHANGED <<BATCH_SIZE, del_id, status, last_res_json, answers>>
    /\ UNCHANGED not_del_vars

\* line 44: the loop test fails, the script ends
LoopEnd ==
    /\ pc = "while"
    /\ ~LoopCondition
    /\ pc' = "exited"
    /\ exit_code' = 0
    /\ printed' = <<>>
    /\ UNCHANGED <<BATCH_SIZE, deleted_rooms, rooms, room_i, res, del_id, status,
                   last_res_json, raised, trace, answers, n_list>>
    /\ UNCHANGED not_del_vars

\* lines 62-68: a room with local members is skipped
SkipRoom ==
    /\ pc = "for"
    /\ room_i <= Len(rooms)
    /\ SkipCondition(rooms[room_i])
    /\ printed' = <<[msg |-> "has local users, skipping", room_id |-> rooms[room_i].room_id]>>
    /\ room_i' = room_i + 1
    /\ UNCHANGED <<BATCH_SIZE, deleted_rooms, rooms, res, del_id, status,
                   last_res_json, pc, exit_code, raised, trace, answers, n_list>>
    /\ UNCHANGED not_del_vars

\* lines 62-93: the room is counted, then its deletion is requested
DeleteRoom ==
    /\ pc = "for"
    /\ room_i <= Len(rooms)
    /\ ~SkipCondition(rooms[room_i])
    /\ LET room_id == rooms[room_i].room_id IN
        /\ trace' = Append(trace, ReqDelete(room_id))
        /\ \E r \in DeleteResponses :
            /\ res' = r
            /\ CountRoom
            /\ IF ~r.ok
               THEN /\ printed' = <<[msg |-> "Deleting room", room_id |-> room_id],
                                    [msg |-> "Failed to request deletion", room_id |-> room_id,
                                     json |-> r.json]>>
                    /\ room_i' = room_i + 1
                    /\ UNCHANGED <<del_id, status, last_res_json, pc, answers>>
               ELSE /\ printed' = <<[msg |-> "Deleting room", room_id |-> room_id]>>
                    /\ del_id' = r.json["delete_id"]
                    /\ status' = "purging"
                    /\ last_res_json' = EmptyJson
                    /\ answers' = <<>>
                    /\ pc' = "poll"
                    /\ UNCHANGED room_i
    /\ UNCHANGED <<BATCH_SIZE, rooms, exit_code, raised, n_list>>
    /\ UNCHANGED not_del_vars

\* lines 103-118: one iteration of the polling loop
PollStatus ==
    /\ pc = "poll"
    /\ PollCondition(status)
    /\ Cardinality(StatusRequests) < MaxPolls
    /\ trace' = trace \o <<Sleep, ReqStatus(del_id)>>
    /\ \E r \in StatusResponses :
        /\ res' = r
        /\ printed' = IF r.ok THEN <<>>
                      ELSE <<[msg |-> "Failed to retrieve deletion status",
                              room_id |-> rooms[room_i].room_id, delete_id |-> del_id,
                              json |-> r.json]>>
        /\ last_res_json' = r.json
        /\ IF "status" \in DOMAIN r.json
           THEN /\ status' = r.json["status"]
                /\ answers' = Append(answers, r.json["status"])
                /\ UNCHANGED <<pc, exit_code, raised>>
           ELSE \* last_res_json["status"] raises KeyError, which nothing catches
                /\ pc' = "exited"
                /\ exit_code' = 1
                /\ raised' = "KeyError"
                /\ UNCHANGED <<status, answers>>
    /\ UNCHANGED <<BATCH_SIZE, deleted_rooms, rooms, room_i, del_id, n_list>>
    /\ UNCHANGED not_del_vars

\* lines 103, 120-124: the polling loop is left
EndPoll ==
    /\ pc = "poll"
    /\ ~PollCondition(status)
    /\ printed' = IF status = "failed"
                  THEN <<[msg |-> "Failed to delete room",
                          room_id |-> rooms[room_i].room_id, json |-> last_res_json]>>
                  ELSE <<>>
    /\ room_i' = room_i + 1
    /\ pc' = "for"
    /\ UNCHANGED <<BATCH_SIZE, deleted_rooms, rooms, res, del_id, status,
                   last_res_json, exit_code, raised, trace, answers, n_list>>
    /\ UNCHANGED not_del_vars

\* line 126: the page is exhausted
Summary ==
    /\ pc = "for"
    /\ room_i > Len(rooms)
    /\ printed' = <<[msg |-> "Deleted rooms", n |-> deleted_rooms, of |-> Len(rooms)]>>
    /\ pc' = "while"
    /\ UNCHANGED <<BATCH_SIZE, deleted_rooms, rooms, room_i, res, del_id, status,
                   last_res_json, exit_code, raised, trace, answers, n_list>>
    /\ UNCHANGED not_del_vars

DelNext ==
    \/ ListRooms
    \/ LoopEnd
    \/ SkipRoom
    \/ DeleteRoom
    \/ PollStatus
    \/ EndPoll
    \/ Summary

DeleteSpec == DelInit /\ [][DelNext]_vars

\* ----------------------------------------------------------------------
\* The script against a homeserver whose listing is stable: the listing is
\* computed from a finite population of rooms, in increasing number of joined
\* local members, and a room leaves the population when its deletion is
\* reported complete.  Every listing request succeeds, and no deletion is
\* reported as purging more than MaxPolls - 1 times.
\* ----------------------------------------------------------------------
\* a population holds a room identifier at most once
Populations ==
    { S \in SUBSET RoomSummaries :
        \A x, y \in S : x.room_id = y.room_id => x = y }

\* the homeserver breaks ties of order_by=joined_local_members by a fixed order
RoomRank(r) == CASE r = "!a" -> 1 [] r = "!b" -> 2 [] OTHER -> 3
SortKey(room) == room.joined_local_members * (Cardinality(RoomIds) + 1) + RoomRank(room.room_id)

RECURSIVE Sorted(_)
\* order_by=joined_local_members&dir=b
Sorted(S) ==
    IF S = {} THEN <<>>
    ELSE LET m == CHOOSE x \in S : \A y \in S : SortKey(x) <= SortKey(y)
         IN  <<m>> \o Sorted(S \ {m})

\* limit={BATCH_SIZE}
Listing(pop, limit) ==
    SubSeq(Sorted(pop), 1, IF Cardinality(pop) < limit THEN Cardinality(pop) ELSE limit)

StableInit ==
    /\ ScriptStart
    /\ population \in Populations

\* lines 44-59, the listing request succeeding with the page of the population
ListRoomsStable ==
    /\ pc = "while"
    /\ LoopCondition
    /\ LET r == [ok |-> TRUE, json |-> [rooms |-> Listing(population, BATCH_SIZE)]] IN
        /\ res' = r
        /\ trace' = <<ReqList>>
        \* counted up to MaxListings
        /\ n_list' = IF n_list < MaxListings THEN n_list + 1 ELSE n_list
        /\ rooms' = r.json["rooms"]
        /\ printed' = <<[msg |-> "Retrieved more rooms", n |-> Len(r.json["rooms"])]>>
        /\ deleted_rooms' = 0
        /\ room_i' = 1
        /\ pc' = "for"
    /\ UNCHANGED <<BATCH_SIZE, del_id, status, last_res_json, answers, exit_code, raised>>
    /\ UNCHANGED not_del_vars

\* lines 103-118, the deletion leaving the purging status in the end, and the
\* room leaving the population when the deletion is reported complete
PollStatusStable ==
    /\ pc = "poll"
    /\ PollCondition(status)
    /\ Cardinality(StatusRequests) < MaxPolls
    /\ trace' = trace \o <<Sleep, ReqStatus(del_id)>>
    /\ \E r \in StatusResponses :
        /\ Cardinality(StatusRequests) = MaxPolls - 1 =>
              ("status" \in DOMAIN r.json /\ r.json["status"] # "purging")
        /\ res' = r
        /\ printed' = IF r.ok THEN <<>>
                      ELSE <<[msg |-> "Failed to retrieve deletion status",
                              room_id |-> rooms[room_i].room_id, delete_id |-> del_id,
                              json |-> r.json]>>
        /\ last_res_json' = r.json
        /\ IF "status" \in DOMAIN r.json
           THEN /\ status' = r.json["status"]
                /\ answers' = Append(answers, r.json["status"])
                /\ population' = IF r.json["status"] = "complete"
                                 THEN { x \in population : x.room_id # rooms[room_i].room_id }
                                 ELSE population
                /\ UNCHANGED <<pc, exit_code, raised>>
           ELSE /\ pc' = "exited"
                /\ exit_code' = 1
                /\ raised' = "KeyError"
                /\ UNCHANGED <<status, answers, population>>
    /\ UNCHANGED <<BATCH_SIZE, deleted_rooms, rooms, room_i, del_id, n_list>>
    /\ UNCHANGED <<name_vars, photo_vars>>

StableNext ==
    \/ ListRoomsStable
    \/ LoopEnd
    \/ SkipRoom
    \/ DeleteRoom
    \/ PollStatusStable
    \/ EndPoll
    \/ Summary

\* the script is a sequential program and the homeserver answers every
\* request: a step that can be taken is taken
StableSpec == StableInit /\ [][StableNext]_vars /\ WF_vars(StableNext)

\* ======================================================================
\* set_display_name_in_matrix_space.py
\* ======================================================================
\* A Python string is the sequence of its tokens (characters, or runs of
\* characters no operation of the script looks into); room identifiers are
\* single tokens.  None is a value no string equals.
None == <<"None", "NoneType">>

Me == <<"@me", ":", "hs">>
Alice == <<"@alice", ":", "hs">>
Bob == <<"@bob", ":", "far">>
Users == {Me, Alice, Bob}
\* args.user_id: a full identifier, one without domain, one with a port
UserIdArgs == {Me, <<"@me">>, <<"@me", ":", "hs", ":", "8448">>}
\* args.space: an alias or a room identifier
SpaceArgs == {<<"#", "s", ":", "hs">>, <<"!", "s", ":", "hs">>}
NewDisplayName == <<"New name">>
Choices == {<<>>, <<"y">>, <<"Y">>, <<"n">>, <<"N">>, <<"n", "o">>, <<"y", "e", "s">>,
            <<"Y", "e", "s">>, <<"Y", "E", "S">>, <<"o", "k">>}

\* ------------------------------------------------------------------ bounds
MaxJoined == 2
MaxHierarchy == 2

\* ------------------------------------------------------- the homeserver
HttpOk == 200
HttpStatuses == {200, 404}
WellKnownBodies ==
    { [m_homeserver |-> [base_url |-> <<"https://", "matrix.hs">>]] }
JoinedRoomsBodies ==
    { [joined_rooms |-> l] :
        l \in { q \in UNION { [1..n -> RoomIds] : n \in 0..MaxJoined } :
                  \A i, j \in 1..Len(q) : i # j => q[i] # q[j] } }
DirectoryBodies == { [room_id |-> <<"!", "s", ":", "hs">>] }
\* a hierarchy entry always has a room_id; its name is optional
HierarchyRooms ==
    { [room_id |-> r] : r \in RoomIds }
        \cup { [room_id |-> r, name |-> <<"Room ", r>>] : r \in RoomIds }
HierarchyBodies ==
    { [rooms |-> l] : l \in UNION { [1..n -> HierarchyRooms] : n \in 0..MaxHierarchy } }
\* the roster of the space: a JSON object keyed by user identifier; a member
\* has a display name (Me, Alice) or none set (Bob)
RosterInfo(u) == IF u = Bob THEN EmptyJson ELSE [display_name |-> <<"roster name">>]
RosterBodies ==
    { [joined |-> [u \in S |-> RosterInfo(u)]] : S \in SUBSET Users }
\* the members of a room: a JSON object, as its items in document order; the
\* display name of a member is missing, null or a string
MemberInfos(u) ==
    IF u = Alice
    THEN { EmptyJson, [display_name |-> None], [display_name |-> <<"Ann">>] }
    ELSE { [display_name |-> <<"name of ", u[1]>>] }
MemberItems == UNION { { [key |-> u, value |-> v] : v \in MemberInfos(u) } : u \in Users }
JoinedMembersBodies ==
    { [joined |-> l] :
        l \in { q \in UNION { [1..n -> MemberItems] : n \in 0..Cardinality(Users) } :
                  \A i, j \in 1..Len(q) : i # j => q[i].key # q[j].key } }
ProfileBodies == { EmptyJson, [avatar_url |-> <<"mxc://hs/me">>] }

\* ------------------------------------------------------- strings
RECURSIVE Split(_, _)
\* str.split(sep)
Split(s, sep) ==
    LET S == { i \in 1..Len(s) : s[i] = sep } IN
    IF S = {} THEN <<s>>
    ELSE LET i == CHOOSE k \in S : \A j \in S : k <= j
         IN  <<SubSeq(s, 1, i - 1)>> \o Split(SubSeq(s, i + 1, Len(s)), sep)

\* str.startswith(prefix), for a prefix of one token
StartsWith(s, prefix) == Len(s) > 0 /\ s[1] = prefix

\* mutant: no case folding
LowerCharIdentity(c) == c

\* one character of str.lower()
LowerChar(c) ==
    CASE c = "Y" -> "y" [] c = "N" -> "n" [] c = "E" -> "e"
      [] c = "S" -> "s" [] c = "O" -> "o" [] c = "K" -> "k" [] OTHER -> c

\* str.lower()
Lower(s) == [i \in 1..Len(s) |-> LowerChar(s[i])]

\* urllib.parse.quote, on the characters of an alias
Quote(s) ==
    [i \in 1..Len(s) |-> CASE s[i] = "#" -> "%23" [] s[i] = ":" -> "%3A" [] OTHER -> s[i]]

\* str(value) inside an f-string
Str(v) == IF v = None THEN <<"None">> ELSE v

\* ------------------------------------------------------- dicts
HasKey(d, k) == \E i \in 1..Len(d) : d[i].key = k
KeyIndex(d, k) == CHOOSE i \in 1..Len(d) : d[i].key = k
\* d[k] = v
DictSet(d, k, v) ==
    IF HasKey(d, k) THEN [d EXCEPT ![KeyIndex(d, k)].value = v]
    ELSE Append(d, [key |-> k, value |-> v])
Keys(d) == { d[i].key : i \in 1..Len(d) }

\* ------------------------------------------------------- requests
\* mutant: the base URL is not prefixed to the path
UrlOfPathOnly(path) == path

\* the URL _req sends to: the path itself when it is a full URL
UrlOf(path) == IF StartsWith(path, "https://") THEN path ELSE base_url \o path
\* _req raises RuntimeError instead of sending
NoBaseUrl(path) == ~StartsWith(path, "https://") /\ base_url = None
Request(method, path) == [method |-> method, url |-> UrlOf(path)]
\* a request whose outcome the script handles, with the status of its response
Sent(req, code) == [method |-> req.method, url |-> req.url, status |-> code]

WellKnownPath(domain) == <<"https://">> \o domain \o <<"/.well-known/matrix/client">>
JoinedRoomsPath == <<"/_matrix/client/v3/joined_rooms">>
DirectoryPath(alias) == <<"/_matrix/client/v3/directory/room/">> \o Quote(alias)
HierarchyPath(sid) == <<"/_matrix/client/v1/rooms/">> \o sid \o <<"/hierarchy">>
SpaceMembersPath(sid) == <<"/_matrix/client/v3/rooms/">> \o sid \o <<"/joined_members">>
JoinedMembersPath(room_id) == <<"/_matrix/client/v3/rooms/", room_id, "/joined_members">>
ProfilePath(uid) == <<"/_matrix/client/v3/profile/">> \o uid
MemberStatePath(room_id, uid) ==
    <<"/_matrix/client/v3/rooms/", room_id, "/state/m.room.member/">> \o uid

\* an exception nothing catches ends the process
Abort(exc) ==
    /\ pc' = "exited"
    /\ exit_code' = 1
    /\ raised' = exc

\* the room deletion tool is not running
DelIdle ==
    /\ BATCH_SIZE = 0
    /\ deleted_rooms = 0
    /\ rooms = <<>>
    /\ room_i = 0
    /\ res = [ok |-> TRUE, json |-> EmptyJson]
    /\ del_id = ""
    /\ status = ""
    /\ last_res_json = EmptyJson
    /\ answers = <<>>
    /\ n_list = 0

\* Client.__init__ and the arguments
NameInit ==
    /\ user_id \in UserIdArgs
    /\ space \in SpaceArgs
    /\ base_url = None
    /\ joined_rooms = <<>>
    /\ rooms_in_space = <<>>
    /\ space_id = None
    /\ members = None
    /\ resp = None
    /\ room_j = 0
    /\ pbar = 0
    /\ choice = None
    /\ evt_content = None
    /\ put_i = 0
    /\ tbar = 0
    /\ pc = "init"
    /\ exit_code = 0
    /\ raised = NoException
    /\ trace = <<>>
    /\ printed = <<>>
    /\ DelIdle
    /\ PhotoIdle
    /\ population = {}

\* lines 32-41: the user identifier is split, the well-known document requested
InitWellKnown ==
    /\ pc = "init"
    /\ LET split == Split(user_id, ":") IN
       IF Len(split) # 2
       THEN /\ Abort("RuntimeError")
            /\ UNCHANGED <<trace, base_url, resp>>
       ELSE LET domain == split[2] IN
            /\ \E code \in HttpStatuses, body \in WellKnownBodies :
                 /\ trace' = Append(trace, Sent(Request("GET", WellKnownPath(domain)), code))
                 /\ IF code = HttpOk
                    THEN /\ resp' = body
                         /\ base_url' = body["m_homeserver"]["base_url"]
                    ELSE /\ base_url' = <<"https://">> \o domain
                         /\ UNCHANGED resp
            /\ pc' = "joined_rooms"
            /\ UNCHANGED <<exit_code, raised>>
    /\ printed' = <<>>
    /\ UNCHANGED <<user_id, space, joined_rooms, rooms_in_space, space_id, members,
                   room_j, pbar, choice, evt_content, put_i, tbar>>
    /\ UNCHANGED not_name_vars

\* lines 43-44: the joined rooms are fetched; init returns
InitJoinedRooms ==
    /\ pc = "joined_rooms"
    /\ ~NoBaseUrl(JoinedRoomsPath)
    /\ trace' = Append(trace, Request("GET", JoinedRoomsPath))
    /\ \E code \in HttpStatuses, body \in JoinedRoomsBodies :
         IF code = HttpOk
         THEN /\ joined_rooms' = body["joined_rooms"]
              /\ pc' = "find"
              /\ UNCHANGED <<exit_code, raised>>
         ELSE /\ Abort("HttpError")
              /\ UNCHANGED joined_rooms
    /\ resp' = None
    /\ printed' = <<>>
    /\ UNCHANGED <<user_id, space, base_url, rooms_in_space, space_id, members,
                   room_j, pbar, choice, evt_content, put_i, tbar>>
    /\ UNCHANGED not_name_vars

\* lines 55-59: an alias is resolved, an identifier is taken as it is
ResolveSpace ==
    /\ pc = "find"
    /\ IF StartsWith(space, "#")
       THEN /\ trace' = Append(trace, Request("GET", DirectoryPath(space)))
            /\ printed' = <<[msg |-> "Resolving space..."]>>
            /\ \E code \in HttpStatuses, body \in DirectoryBodies :
                 IF code = HttpOk
                 THEN /\ resp' = body
                      /\ space_id' = body["room_id"]
                      /\ pc' = "hierarchy"
                      /\ UNCHANGED <<exit_code, raised>>
                 ELSE /\ Abort("HttpError")
                      /\ UNCHANGED <<resp, space_id>>
       ELSE /\ space_id' = space
            /\ pc' = "hierarchy"
            /\ printed' = <<>>
            /\ UNCHANGED <<trace, resp, exit_code, raised>>
    /\ UNCHANGED <<user_id, space, base_url, joined_rooms, rooms_in_space, members,
                   room_j, pbar, choice, evt_content, put_i, tbar>>
    /\ UNCHANGED not_name_vars

RECURSIVE HierarchyDictAppend(_, _)
\* mutant: every kept entry is added as a new item, also for a room already added
HierarchyDictAppend(l, d) ==
    IF l = <<>> THEN d
    ELSE IF Head(l).room_id \in { joined_rooms[i] : i \in 1..Len(joined_rooms) }
         THEN HierarchyDictAppend(Tail(l), Append(d, [key |-> Head(l).room_id,
                                                      value |-> Head(l).name]))
         ELSE HierarchyDictAppend(Tail(l), d)

RECURSIVE HierarchyDictUnfiltered(_, _)
\* mutant: the comprehension without its `if`: every named entry is kept
HierarchyDictUnfiltered(l, d) ==
    IF l = <<>> THEN d
    ELSE IF "name" \in DOMAIN Head(l)
         THEN HierarchyDictUnfiltered(Tail(l), DictSet(d, Head(l).room_id, Head(l).name))
         ELSE HierarchyDictUnfiltered(Tail(l), d)

RECURSIVE HierarchyDict(_, _)
\* {room["room_id"]: room["name"] for room in l if room["room_id"] in self.joined_rooms},
\* added to d
HierarchyDict(l, d) ==
    IF l = <<>> THEN d
    ELSE IF Head(l).room_id \in { joined_rooms[i] : i \in 1..Len(joined_rooms) }
         THEN HierarchyDict(Tail(l), DictSet(d, Head(l).room_id, Head(l).name))
         ELSE HierarchyDict(Tail(l), d)

\* room["name"] raises KeyError for some entry the comprehension keeps
HierarchyKeyError(l) ==
    \E i \in 1..Len(l) :
        /\ l[i].room_id \in { joined_rooms[k] : k \in 1..Len(joined_rooms) }
        /\ "name" \notin DOMAIN l[i]

\* lines 61-67: the hierarchy is fetched and filtered by the joined rooms
Hierarchy ==
    /\ pc = "hierarchy"
    /\ trace' = Append(trace, Request("GET", HierarchyPath(space_id)))
    /\ printed' = <<[msg |-> "Retrieving space hierarchy..."]>>
    /\ \E code \in HttpStatuses, body \in HierarchyBodies :
         IF code # HttpOk
         THEN /\ Abort("HttpError")
              /\ UNCHANGED <<resp, rooms_in_space>>
         ELSE /\ resp' = body
              /\ IF HierarchyKeyError(body["rooms"])
                 THEN /\ Abort("KeyError")
                      /\ UNCHANGED rooms_in_space
                 ELSE /\ rooms_in_space' = HierarchyDict(body["rooms"], <<>>)
                      /\ pc' = "roster"
                      /\ UNCHANGED <<exit_code, raised>>
    /\ UNCHANGED <<user_id, space, base_url, joined_rooms, space_id, members,
                   room_j, pbar, choice, evt_content, put_i, tbar>>
    /\ UNCHANGED not_name_vars

\* lines 105-114: the roster of the space is fetched
SpaceMembers ==
    /\ pc = "roster"
    /\ trace' = Append(trace, Request("GET", SpaceMembersPath(space_id)))
    /\ printed' = <<[msg |-> "Identifying related DMs..."]>>
    /\ \E code \in HttpStatuses, body \in RosterBodies :
         IF code # HttpOk
         THEN /\ Abort("HttpError")
              /\ UNCHANGED <<resp, members, room_j, pbar>>
         ELSE /\ resp' = body
              /\ members' = [ u \in DOMAIN body["joined"] |->
                                IF "display_name" \in DOMAIN body["joined"][u]
                                THEN body["joined"][u]["display_name"] ELSE u ]
              /\ room_j' = 1
              /\ pbar' = 0
              /\ pc' = "scan"
              /\ UNCHANGED <<exit_code, raised>>
    /\ UNCHANGED <<user_id, space, base_url, joined_rooms, rooms_in_space, space_id,
                   choice, evt_content, put_i, tbar>>
    /\ UNCHANGED not_name_vars

\* _is_dm_in_space
IsDmInSpace(joined_users) ==
    /\ Len(joined_users) = 2
    /\ \A i \in 1..Len(joined_users) :
          joined_users[i].key = user_id \/ joined_users[i].key \in DOMAIN members

\* the item _correspondant_display_name returns from: the first one that is
\* not the acting user (0 when there is none)
Correspondant(joined_users) ==
    LET S == { i \in 1..Len(joined_users) : joined_users[i].key # user_id }
    IN  IF S = {} THEN 0 ELSE CHOOSE i \in S : \A j \in S : i <= j

\* value["display_name"] raises KeyError
CorrespondantKeyError(joined_users) ==
    /\ Correspondant(joined_users) # 0
    /\ "display_name" \notin DOMAIN joined_users[Correspondant(joined_users)].value

\* _correspondant_display_name
CorrespondantDisplayName(joined_users) ==
    IF Correspondant(joined_users) = 0 THEN None
    ELSE joined_users[Correspondant(joined_users)].value["display_name"]

\* lines 115-118: a room the map already holds is passed over
SkipKnownRoom ==
    /\ pc = "scan"
    /\ room_j <= Len(joined_rooms)
    /\ HasKey(rooms_in_space, joined_rooms[room_j])
    /\ pbar' = pbar + 1
    /\ room_j' = room_j + 1
    /\ printed' = <<>>
    /\ UNCHANGED <<user_id, space, base_url, joined_rooms, rooms_in_space, space_id,
                   members, resp, choice, evt_content, put_i, tbar>>
    /\ UNCHANGED <<pc, exit_code, raised, trace>>
    /\ UNCHANGED not_name_vars

\* lines 115-126: the members of a room are fetched and the room classified
InspectRoom ==
    /\ pc = "scan"
    /\ room_j <= Len(joined_rooms)
    /\ ~HasKey(rooms_in_space, joined_rooms[room_j])
    /\ LET room_id == joined_rooms[room_j] IN
        /\ trace' = Append(trace, Request("GET", JoinedMembersPath(room_id)))
        /\ \E code \in HttpStatuses, body \in JoinedMembersBodies :
             IF code # HttpOk
             THEN /\ Abort("HttpError")
                  /\ UNCHANGED <<resp, rooms_in_space, pbar, room_j>>
             ELSE LET joined == body["joined"] IN
                  /\ resp' = body
                  /\ IF IsDmInSpace(joined) /\ CorrespondantKeyError(joined)
                     THEN /\ Abort("KeyError")
                          /\ UNCHANGED <<rooms_in_space, pbar, room_j>>
                     ELSE /\ rooms_in_space' =
                                IF IsDmInSpace(joined)
                                THEN DictSet(rooms_in_space, room_id,
                                             <<"DM with ">> \o Str(CorrespondantDisplayName(joined)))
                                ELSE rooms_in_space
                          /\ pbar' = pbar + 1
                          /\ room_j' = room_j + 1
                          /\ UNCHANGED <<pc, exit_code, raised>>
    /\ printed' = <<>>
    /\ UNCHANGED <<user_id, space, base_url, joined_rooms, space_id, members,
                   choice, evt_content, put_i, tbar>>
    /\ UNCHANGED not_name_vars

\* lines 223-225: the scan is over, find_rooms_in_space returns and the
\* target rooms are listed
ListTargetRooms ==
    /\ pc = "scan"
    /\ room_j > Len(joined_rooms)
    /\ printed' = <<[msg |-> "Your display name will be changed in the following rooms:"]>>
                    \o [i \in 1..Len(rooms_in_space) |->
                          [msg |-> "-", room_name |-> rooms_in_space[i].value,
                           room_id |-> rooms_in_space[i].key]]
    /\ space_id' = None
    /\ members' = None
    /\ resp' = None
    /\ pc' = "prompt"
    /\ UNCHANGED <<user_id, space, base_url, joined_rooms, rooms_in_space,
                   room_j, pbar, choice, evt_content, put_i, tbar>>
    /\ UNCHANGED <<exit_code, raised, trace>>
    /\ UNCHANGED not_name_vars

\* mutant: any answer that begins with y or Y is a yes
ProceedsOnPrefix(c) == c = <<>> \/ StartsWith(Lower(c), "y")

\* choice == "" or choice.lower() == "y"
Proceeds(c) == c = <<>> \/ Lower(c) = <<"y">>

\* lines 227-229: the operator answers the prompt
Confirm ==
    /\ pc = "prompt"
    /\ \E c \in Choices :
        /\ choice' = c
        /\ IF Proceeds(c)
           THEN pc' = "profile"
           ELSE pc' = "exited"
    /\ printed' = <<[msg |-> "Continue? [Y/n] "]>>
    /\ UNCHANGED <<user_id, space, base_url, joined_rooms, rooms_in_space, space_id,
                   members, resp, room_j, pbar, evt_content, put_i, tbar>>
    /\ UNCHANGED <<exit_code, raised, trace>>
    /\ UNCHANGED not_name_vars

\* lines 141-149: the profile is fetched and the event content built
FetchProfile ==
    /\ pc = "profile"
    /\ trace' = Append(trace, Request("GET", ProfilePath(user_id)))
    /\ \E code \in HttpStatuses, body \in ProfileBodies :
         IF code # HttpOk
         THEN /\ Abort("HttpError")
              /\ UNCHANGED <<evt_content, put_i, tbar>>
         ELSE /\ evt_content' =
                    [membership |-> <<"join">>,
                     displayname |-> NewDisplayName,
                     avatar_url |-> IF "avatar_url" \in DOMAIN body
                                    THEN body["avatar_url"] ELSE None]
              /\ put_i' = 1
              /\ tbar' = 0
              /\ pc' = "update"
              /\ UNCHANGED <<exit_code, raised>>
    /\ printed' = <<>>
    /\ UNCHANGED <<user_id, space, base_url, joined_rooms, rooms_in_space, space_id,
                   members, resp, room_j, pbar, choice>>
    /\ UNCHANGED not_name_vars

\* mutant: no try/except around the request: a failed update ends the run
PutRoomUncaught ==
    /\ pc = "update"
    /\ put_i <= Len(rooms_in_space)
    /\ LET room_id == rooms_in_space[put_i].key IN
        \E code \in HttpStatuses :
            /\ trace' = Append(trace, Sent(Request("PUT", MemberStatePath(room_id, user_id)), code))
            /\ IF code = HttpOk
               THEN /\ tbar' = tbar + 1
                    /\ put_i' = put_i + 1
                    /\ UNCHANGED <<pc, exit_code, raised>>
               ELSE /\ Abort("HttpError")
                    /\ UNCHANGED <<tbar, put_i>>
    /\ printed' = <<>>
    /\ UNCHANGED <<user_id, space, base_url, joined_rooms, rooms_in_space, space_id,
                   members, resp, room_j, pbar, choice, evt_content>>
    /\ UNCHANGED not_name_vars

\* mutant: the pass walks the joined rooms instead of the map
PutRoomJoined ==
    /\ pc = "update"
    /\ put_i <= Len(joined_rooms)
    /\ LET room_id == joined_rooms[put_i] IN
        \E code \in HttpStatuses :
          /\ trace' = Append(trace, Sent(Request("PUT", MemberStatePath(room_id, user_id)), code))
          /\ printed' = IF code = HttpOk THEN <<>>
                        ELSE <<[msg |-> "Failed to update", room_id |-> room_id, code |-> code,
                                url |-> UrlOf(MemberStatePath(room_id, user_id))]>>
    /\ tbar' = tbar + 1
    /\ put_i' = put_i + 1
    /\ UNCHANGED <<user_id, space, base_url, joined_rooms, rooms_in_space, space_id,
                   members, resp, room_j, pbar, choice, evt_content>>
    /\ UNCHANGED <<pc, exit_code, raised>>
    /\ UNCHANGED not_name_vars

\* lines 150-160: the membership event of one room is sent
PutRoom ==
    /\ pc = "update"
    /\ put_i <= Len(rooms_in_space)
    /\ LET room_id == rooms_in_space[put_i].key
           room_name == rooms_in_space[put_i].value
       IN
        \E code \in HttpStatuses :
          /\ trace' = Append(trace, Sent(Request("PUT", MemberStatePath(room_id, user_id)), code))
          /\ printed' = IF code = HttpOk THEN <<>>
                        ELSE <<[msg |-> "Failed to update", room_name |-> room_name,
                                room_id |-> room_id, code |-> code,
                                url |-> UrlOf(MemberStatePath(room_id, user_id))]>>
    /\ tbar' = tbar + 1
    /\ put_i' = put_i + 1
    /\ UNCHANGED <<user_id, space, base_url, joined_rooms, rooms_in_space, space_id,
                   members, resp, room_j, pbar, choice, evt_content>>
    /\ UNCHANGED <<pc, exit_code, raised>>
    /\ UNCHANGED not_name_vars

\* line 229: change_display_name returns and the script ends
EndUpdate ==
    /\ pc = "update"
    /\ put_i > Len(rooms_in_space)
    /\ pc' = "exited"
    /\ evt_content' = None
    /\ printed' = <<>>
    /\ UNCHANGED <<user_id, space, base_url, joined_rooms, rooms_in_space, space_id,
                   members, resp, room_j, pbar, choice, put_i, tbar>>
    /\ UNCHANGED <<exit_code, raised, trace>>
    /\ UNCHANGED not_name_vars

NameNext ==
    \/ InitWellKnown
    \/ InitJoinedRooms
    \/ ResolveSpace
    \/ Hierarchy
    \/ SpaceMembers
    \/ SkipKnownRoom
    \/ InspectRoom
    \/ ListTargetRooms
    \/ Confirm
    \/ FetchProfile
    \/ PutRoom
    \/ EndUpdate

NameSpec == NameInit /\ [][NameNext]_vars

\* ======================================================================
\* sort_photos.py
\* ======================================================================
\* A file name is the sequence of its characters; a path is the sequence of
\* its components.
MaxFiles == 3

\* args.path
Source == <<"p", "h", "o", "t", "o", "s">>

\* IMG_20230615_101500.jpg: a photo of June 2023
ImgJune ==
    <<"I", "M", "G", "_", "2", "0", "2", "3", "0", "6", "1", "5", "_", "1", "0", "1", "5", "0", "0", ".", "j", "p", "g">>
\* IMG_20230620_090000.jpg: another photo of June 2023
ImgJuneLater ==
    <<"I", "M", "G", "_", "2", "0", "2", "3", "0", "6", "2", "0", "_", "0", "9", "0", "0", "0", "0", ".", "j", "p", "g">>
\* PANO_20230101_080000.jpg: a panorama of January 2023
PanoJanuary ==
    <<"P", "A", "N", "O", "_", "2", "0", "2", "3", "0", "1", "0", "1", "_", "0", "8", "0", "0", "0", "0", ".", "j", "p", "g">>
\* IMG_09990101_000000.jpg: a photo dated in the year 999
ImgYear999 ==
    <<"I", "M", "G", "_", "0", "9", "9", "9", "0", "1", "0", "1", "_", "0", "0", "0", "0", "0", "0", ".", "j", "p", "g">>
\* IMG_20230230_101500.jpg: a recognized name whose date group is no calendar date
ImgFebruary30 ==
    <<"I", "M", "G", "_", "2", "0", "2", "3", "0", "2", "3", "0", "_", "1", "0", "1", "5", "0", "0", ".", "j", "p", "g">>
\* VID_20230615_101500.mp4: a video
Vid ==
    <<"V", "I", "D", "_", "2", "0", "2", "3", "0", "6", "1", "5", "_", "1", "0", "1", "5", "0", "0", ".", "m", "p", "4">>
\* random.txt: another file
RandomTxt ==
    <<"r", "a", "n", "d", "o", "m", ".", "t", "x", "t">>
\* IMG_2023061_101500.jpg: a name with a seven-digit group
ImgShortDate ==
    <<"I", "M", "G", "_", "2", "0", "2", "3", "0", "6", "1", "_", "1", "0", "1", "5", "0", "0", ".", "j", "p", "g">>
FileNames == {ImgJune, ImgJuneLater, PanoJanuary, ImgYear999, ImgFebruary30, Vid,
              RandomTxt, ImgShortDate}
\* os.listdir: the names of a directory, each once, in any order
Listings ==
    { l \in UNION { [1..n -> FileNames] : n \in 0..MaxFiles } :
        \A i, j \in 1..Len(l) : i # j => l[i] # l[j] }

\* ------------------------------------------------------- the pattern
\* the character class [IMG|PANO]
ClassChars == {"I", "M", "G", "|", "P", "A", "N", "O"}
\* the character class [0-9]
DigitChars == {"0", "1", "2", "3", "4", "5", "6", "7", "8", "9"}

\* the longest run of class characters the name begins with: what [IMG|PANO]+
\* takes (the character after it must be "_", which is not in the class)
PrefixLen(name) ==
    LET S == { n \in 0..Len(name) : \A i \in 1..n : name[i] \in ClassChars }
    IN  CHOOSE n \in S : \A m \in S : m <= n

\* re.match(FILE_NAME_REGEX, file) is not None
Matches(name) ==
    LET p == PrefixLen(name) IN
    /\ p >= 1
    /\ Len(name) >= p + 16
    /\ name[p + 1] = "_"
    /\ \A i \in (p + 2)..(p + 9) : name[i] \in DigitChars
    /\ name[p + 10] = "_"
    /\ \A i \in (p + 11)..(p + 16) : name[i] \in DigitChars

\* match.group(1)
Group1(name) == SubSeq(name, PrefixLen(name) + 2, PrefixLen(name) + 9)

\* ------------------------------------------------------- dates
DigitValue(c) ==
    CASE c = "0" -> 0 [] c = "1" -> 1 [] c = "2" -> 2 [] c = "3" -> 3 [] c = "4" -> 4
      [] c = "5" -> 5 [] c = "6" -> 6 [] c = "7" -> 7 [] c = "8" -> 8 [] c = "9" -> 9
DigitChar(n) ==
    CASE n = 0 -> "0" [] n = 1 -> "1" [] n = 2 -> "2" [] n = 3 -> "3" [] n = 4 -> "4"
      [] n = 5 -> "5" [] n = 6 -> "6" [] n = 7 -> "7" [] n = 8 -> "8" [] n = 9 -> "9"

RECURSIVE Number(_)
\* the number a run of digits writes
Number(ds) ==
    IF ds = <<>> THEN 0
    ELSE 10 * Number(SubSeq(ds, 1, Len(ds) - 1)) + DigitValue(ds[Len(ds)])

RECURSIVE Decimal(_)
\* a number written without leading zeros
Decimal(n) ==
    IF n < 10 THEN <<DigitChar(n)>>
    ELSE Decimal(n \div 10) \o <<DigitChar(n % 10)>>

\* a number written with leading zeros, to a width
ZeroPadded(n, width) ==
    LET ds == Decimal(n) IN
    IF Len(ds) >= width THEN ds ELSE [i \in 1..(width - Len(ds)) |-> "0"] \o ds

IsLeapYear(y) == (y % 4 = 0 /\ y % 100 # 0) \/ y % 400 = 0
DaysInMonth(y, m) ==
    CASE m \in {1, 3, 5, 7, 8, 10, 12} -> 31
      [] m \in {4, 6, 9, 11} -> 30
      [] OTHER -> IF IsLeapYear(y) THEN 29 ELSE 28

\* datetime.strptime(group, "%Y%m%d") of an eight-digit group: four digits of
\* year, two of month, two of day
Strptime(group) ==
    [year |-> Number(SubSeq(group, 1, 4)),
     month |-> Number(SubSeq(group, 5, 6)),
     day |-> Number(SubSeq(group, 7, 8))]

\* strptime returns a date; otherwise it raises ValueError
ValidDate(group) ==
    LET date == Strptime(group) IN
    /\ date.year >= 1
    /\ date.month \in 1..12
    /\ date.day \in 1..DaysInMonth(date.year, date.month)

\* date.strftime("%Y/%m"), as the components of the relative path: %m is two
\* digits; %Y is the year in four digits or, where the C library does not pad
\* it, the year without leading zeros
Strftime(date) ==
    { <<y, ZeroPadded(date.month, 2)>> :
        y \in {ZeroPadded(date.year, 4), Decimal(date.year)} }

\* os.path.join(args.path, dir_path)
Join(path, rel) == <<path>> \o rel

\* files_to_move[dir_path].append(file), after the key is created if missing
Bucketed(d, dir_path, file) ==
    IF HasKey(d, dir_path)
    THEN [d EXCEPT ![KeyIndex(d, dir_path)].value = Append(@, file)]
    ELSE Append(d, [key |-> dir_path, value |-> <<file>>])

\* the directory and its parents under args.path: what mkdir(parents=True) makes
WithParents(dir_path) == { SubSeq(dir_path, 1, n) : n \in 2..Len(dir_path) }

\* ------------------------------------------------------- the script
\* lines 36-41: the directory is listed, every entry lies in it
PhotoInit ==
    /\ files \in Listings
    /\ n_files = Len(files)
    /\ files_to_move = <<>>
    /\ file_k = 1
    /\ bucket_k = 0
    /\ move_k = 0
    /\ located = [f \in { files[i] : i \in 1..Len(files) } |-> <<Source>>]
    /\ dirs = {}
    /\ ticks = 0
    /\ pc = "scan"
    /\ exit_code = 0
    /\ raised = NoException
    /\ trace = <<>>
    /\ printed = <<>>
    /\ DelIdle
    /\ NameIdle
    /\ population = {}

\* mutant: the count is not adjusted
SkipCountKept == n_files' = n_files

\* n_files -= 1
SkipCount == n_files' = n_files - 1

\* lines 43-45, 60-62: a name that does not match is left out of the count
SkipFile ==
    /\ pc = "scan"
    /\ file_k <= Len(files)
    /\ ~Matches(files[file_k])
    /\ SkipCount
    /\ file_k' = file_k + 1
    /\ printed' = <<>>
    /\ UNCHANGED <<files, files_to_move, bucket_k, move_k, located, dirs, ticks>>
    /\ UNCHANGED <<pc, exit_code, raised, trace>>
    /\ UNCHANGED not_photo_vars

\* mutant: a single pass, each file moved as soon as its name is parsed
RecordFileAndMove ==
    /\ pc = "scan"
    /\ file_k <= Len(files)
    /\ Matches(files[file_k])
    /\ LET file == files[file_k]
           group == Group1(file)
       IN  IF ~ValidDate(group)
           THEN /\ Abort("ValueError")
                /\ UNCHANGED <<files_to_move, file_k, located, dirs, ticks>>
           ELSE \E rel \in Strftime(Strptime(group)) :
                  /\ files_to_move' = Bucketed(files_to_move, Join(Source, rel), file)
                  /\ dirs' = dirs \cup WithParents(Join(Source, rel))
                  /\ located' = [located EXCEPT ![file] = Join(Source, rel)]
                  /\ ticks' = ticks + 1
                  /\ file_k' = file_k + 1
                  /\ UNCHANGED <<pc, exit_code, raised>>
    /\ printed' = <<>>
    /\ UNCHANGED <<files, n_files, bucket_k, move_k, trace>>
    /\ UNCHANGED not_photo_vars

\* lines 43-59: a name that matches is parsed and put in the bucket of its
\* directory; a date group that is no date raises ValueError
RecordFile ==
    /\ pc = "scan"
    /\ file_k <= Len(files)
    /\ Matches(files[file_k])
    /\ LET file == files[file_k]
           group == Group1(file)
       IN  IF ~ValidDate(group)
           THEN /\ Abort("ValueError")
                /\ UNCHANGED <<files_to_move, file_k>>
           ELSE \E rel \in Strftime(Strptime(group)) :
                  /\ files_to_move' = Bucketed(files_to_move, Join(Source, rel), file)
                  /\ file_k' = file_k + 1
                  /\ UNCHANGED <<pc, exit_code, raised>>
    /\ printed' = <<>>
    /\ UNCHANGED <<files, n_files, bucket_k, move_k, located, dirs, ticks, trace>>
    /\ UNCHANGED not_photo_vars

\* lines 64-68: the scan is over, the count is printed, the progress bar opened
Report ==
    /\ pc = "scan"
    /\ file_k > Len(files)
    /\ printed' = <<[msg |-> "Moving files", n |-> n_files]>>
    /\ bucket_k' = 1
    /\ move_k' = 0
    /\ ticks' = 0
    /\ pc' = "move"
    /\ UNCHANGED <<files, n_files, files_to_move, file_k, located, dirs>>
    /\ UNCHANGED <<exit_code, raised, trace>>
    /\ UNCHANGED not_photo_vars

\* line 70: the directory of a bucket is created, unless mkdir fails
MakeDir ==
    /\ pc = "move"
    /\ bucket_k <= Len(files_to_move)
    /\ move_k = 0
    /\ \/ /\ dirs' = dirs \cup WithParents(files_to_move[bucket_k].key)
          /\ move_k' = 1
          /\ UNCHANGED <<pc, exit_code, raised>>
       \/ /\ Abort("OSError")
          /\ UNCHANGED <<dirs, move_k>>
    /\ printed' = <<>>
    /\ UNCHANGED <<files, n_files, files_to_move, file_k, bucket_k, located, ticks>>
    /\ UNCHANGED trace
    /\ UNCHANGED not_photo_vars

\* lines 72-81: a file of the bucket is moved and the progress bar updated,
\* unless shutil.move fails; after the last file the next bucket is taken
MoveFile ==
    /\ pc = "move"
    /\ bucket_k <= Len(files_to_move)
    /\ move_k >= 1
    /\ LET dir_path == files_to_move[bucket_k].key
           bucket == files_to_move[bucket_k].value
       IN  \/ /\ located' = [located EXCEPT ![bucket[move_k]] = dir_path]
              /\ ticks' = ticks + 1
              /\ IF move_k < Len(bucket)
                 THEN /\ move_k' = move_k + 1
                      /\ UNCHANGED bucket_k
                 ELSE /\ move_k' = 0
                      /\ bucket_k' = bucket_k + 1
              /\ UNCHANGED <<pc, exit_code, raised>>
           \/ /\ Abort("OSError")
              /\ UNCHANGED <<located, ticks, move_k, bucket_k>>
    /\ printed' = <<>>
    /\ UNCHANGED <<files, n_files, files_to_move, file_k, dirs>>
    /\ UNCHANGED trace
    /\ UNCHANGED not_photo_vars

\* line 81: every bucket is done, the script ends
Finish ==
    /\ pc = "move"
    /\ bucket_k > Len(files_to_move)
    /\ pc' = "exited"
    /\ printed' = <<>>
    /\ UNCHANGED photo_vars
    /\ UNCHANGED <<exit_code, raised, trace>>
    /\ UNCHANGED not_photo_vars

PhotoNext ==
    \/ SkipFile
    \/ RecordFile
    \/ Report
    \/ MakeDir
    \/ MoveFile
    \/ Finish

PhotoSpec == PhotoInit /\ [][PhotoNext]_vars

\* ======================================================================
\* Room deletion tool: properties (checked under DeleteSpec)
\* ======================================================================
DeleteIssued(r) == \E i \in 1..Len(trace) : trace[i] = ReqDelete(r)
ListedWith(r, n) ==
    \E j \in 1..Len(rooms) : rooms[j] = [room_id |-> r, joined_local_members |-> n]
\* a page has been retrieved and the run has neither exited nor crashed in it
PageDone == pc = "while" /\ n_list > 0
\* the step issues the DELETE request of the room at room_i
DeleteStep ==
    /\ pc = "for" /\ room_i <= Len(rooms)
    /\ trace' = Append(trace, ReqDelete(rooms[room_i].room_id))
\* the step issues a status request
PollStep == pc = "poll" /\ trace' = trace \o <<Sleep, ReqStatus(del_id)>>

\* C1: within a batch, a DELETE request has been issued for a room only if the
\* page lists that room with joined_local_members = 0; a room the page lists
\* with joined_local_members # 0 has received no DELETE request.
C1_DeleteOnlyZeroMembers ==
    /\ \A r \in RoomIds : DeleteIssued(r) => ListedWith(r, 0)
    /\ \A j \in 1..Len(rooms) :
          rooms[j].joined_local_members # 0 => ~DeleteIssued(rooms[j].room_id)

\* C1 witness: a page with a populated room and an empty room has been
\* processed to its end, and the empty room's deletion was requested.
C1_Witness ==
    /\ PageDone
    /\ \E r \in RoomIds : DeleteIssued(r)
    /\ \E j \in 1..Len(rooms) : rooms[j].joined_local_members # 0

C3_FailedDeleteCounts ==
    /\ [](pc = "for" => deleted_rooms = ZeroCount(SubSeq(rooms, 1, room_i - 1)))
    /\ [](PageDone => deleted_rooms = ZeroCount(rooms))
    /\ [][ (DeleteStep /\ ~res'.ok) =>
              /\ deleted_rooms' = deleted_rooms + 1
              /\ room_i' = room_i + 1
              /\ pc' = "for"
              /\ raised' = NoException ]_vars

\* C3 witness: a page is done whose last room's DELETE request failed, and the
\* tally still reached the batch size.
C3_Witness ==
    /\ PageDone
    /\ trace[Len(trace)].op = "DELETE room"
    /\ ~res.ok
    /\ deleted_rooms = BATCH_SIZE

\* the polling loop of the deletion being watched has been left
PollingLeft ==
    \/ pc = "poll" /\ ~PollCondition(status)
    \/ pc = "for" /\ StatusRequests # {}

\* C4: when the polling loop is left, the statuses reported were k times
\* "purging" then one other status, exactly k+1 status requests were issued,
\* each right after a pause; the diagnostic is printed on leaving the loop
\* if and only if the final status is "failed".
C4_PollsUntilNotPurging ==
    /\ [](PollingLeft /\ answers # <<>> =>
            /\ \A i \in 1..(Len(answers) - 1) : answers[i] = "purging"
            /\ answers[Len(answers)] # "purging"
            /\ Cardinality(StatusRequests) = Len(answers))
    /\ [](\A i \in StatusRequests : i > 1 /\ trace[i - 1] = Sleep)
    /\ [](pc = "poll" =>
            Cardinality({ i \in LastDelete..Len(trace) : trace[i] = Sleep })
                = Cardinality(StatusRequests))
    /\ [][ (pc = "poll" /\ pc' = "for") =>
              ((\E i \in 1..Len(printed') : printed'[i].msg = "Failed to delete room")
                  <=> status = "failed") ]_vars

\* C4 witness: purging, purging, complete: three status requests, the loop is
\* left and nothing is printed.
C4_Witness ==
    /\ pc = "for"
    /\ answers = <<"purging", "purging", "complete">>
    /\ Cardinality(StatusRequests) = 3
    /\ printed = <<>>

\* C5: a status query that returns a non-success response is recovered: the
\* error is printed, the run goes on and the query is retried.
C5_FailedStatusQueryRetried ==
    [][ (PollStep /\ ~res'.ok) =>
          /\ \E i \in 1..Len(printed') :
                printed'[i].msg = "Failed to retrieve deletion status"
          /\ raised' = NoException
          /\ pc' = "poll" /\ PollCondition(status') ]_vars

\* C6: a failed listing request ends the process with exit status 1, and no
\* other failed request ends the run: a run that ended abnormally ended on a
\* failed listing request.
C6_OnlyListingFailureTerminates ==
    /\ (trace = <<ReqList>> /\ ~res.ok) => (pc = "exited" /\ exit_code = 1)
    /\ (pc = "exited" /\ exit_code # 0) => (trace = <<ReqList>> /\ ~res.ok)

\* the deletion being watched is still reported as purging
Watching == pc = "poll" /\ status = "purging"
\* the step sends a DELETE request or a listing request
StartsRoomOrPage ==
    /\ trace' # trace
    /\ trace'[Len(trace')].op \in {"DELETE room", "GET rooms"}

\* C17: while the deletion being watched is reported as purging, the only step
\* the script takes is one more pause and status request for that same
\* deletion: the room, the page and the number of listings stay as they are,
\* and as long as the status stays purging the script stays in the polling
\* loop (or ends on an exception); a step that sends a DELETE or a listing
\* request starts from a status other than purging; outside the polling loop
\* of a running script no deletion is purging; every status request since the
\* last DELETE is for the one deletion being watched.
C17_OneDeletionAtATime ==
    /\ [][ Watching =>
             /\ trace' = trace \o <<Sleep, ReqStatus(del_id)>>
             /\ del_id' = del_id /\ room_i' = room_i
             /\ rooms' = rooms /\ n_list' = n_list
             /\ pc' \in {"poll", "exited"}
             /\ (status' = "purging" /\ raised' = NoException) => pc' = "poll" ]_vars
    /\ [][ StartsRoomOrPage => status # "purging" ]_vars
    /\ [](pc \in {"while", "for"} => status # "purging")
    /\ [](\A i \in StatusRequests : trace[i] = ReqStatus(del_id))

\* C17 witness: a deletion has been reported as purging twice and is still
\* being watched, while the next room of the page, which also has no
\* members, has received no DELETE request.
C17_Witness ==
    /\ Watching
    /\ answers = <<"purging", "purging">>
    /\ room_i < Len(rooms)
    /\ rooms[room_i + 1].joined_local_members = 0
    /\ ~DeleteIssued(rooms[room_i + 1].room_id)

\* C19: against a homeserver whose listing is stable, with every listing
\* request succeeding and every deletion leaving the purging status, the main
\* loop eventually stops (checked under StableSpec).
C19_MainLoopStops == <>(pc = "exited")


\* ======================================================================
\* Display name changer: properties (checked under NameSpec)
\* ======================================================================
ProfileRequested == \E i \in 1..Len(trace) : trace[i] = Request("GET", ProfilePath(user_id))
PutRequested == \E i \in 1..Len(trace) : trace[i].method = "PUT"
\* the operator has answered the prompt
Answered == choice # None
\* the update pass has been entered
UpdateRuns == pc \in {"profile", "update"} \/ ProfileRequested
\* the step receives the joined-members listing of the room at room_j
InspectStep ==
    /\ pc = "scan"
    /\ Len(trace') = Len(trace) + 1
    /\ raised' # "HttpError"
\* exactly two members, and every member other than the acting user is in
\* the roster of the space
QualifiesAsDm(joined) ==
    /\ Len(joined) = 2
    /\ \A i \in 1..Len(joined) : joined[i].key # user_id => joined[i].key \in DOMAIN members

\* C7: after an answer other than the empty line, "y" or "Y" the run is over
\* and no profile request and no PUT request has been issued; after the empty
\* line, "y" or "Y" the update pass runs; no such request precedes the answer.
C7_ConfirmationGate ==
    /\ (Answered /\ choice \notin {<<>>, <<"y">>, <<"Y">>}) =>
          /\ ~ProfileRequested /\ ~PutRequested
          /\ pc = "exited" /\ raised = NoException
    /\ (Answered /\ choice \in {<<>>, <<"y">>, <<"Y">>}) => UpdateRuns
    /\ (ProfileRequested \/ PutRequested) => Answered

\* C7 witness: the operator answered "no" to a list of at least one room and
\* the run ended without a request of the update pass.
C7_Witness ==
    /\ choice = <<"n", "o">>
    /\ rooms_in_space # <<>>
    /\ pc = "exited"
    /\ ~ProfileRequested /\ ~PutRequested

\* C8 as stated: the update pass is entered exactly for the answers that are
\* empty or begin with "y" or "Y".
C8_AnswersBeginningWithYProceed ==
    Answered =>
        (UpdateRuns <=> (choice = <<>> \/ StartsWith(choice, "y") \/ StartsWith(choice, "Y")))

\* C8 as amended: the step that reads the answer enters the update pass when
\* the answer is empty, "y" or "Y", and otherwise (also for a longer answer
\* that begins with "y" or "Y") ends the run with nothing sent or changed.
C8_OnlyExactYProceeds ==
    [][ (pc = "prompt" /\ pc' # "prompt") =>
          IF choice' = <<>> \/ choice' = <<"y">> \/ choice' = <<"Y">>
          THEN pc' = "profile"
          ELSE /\ pc' = "exited" /\ exit_code' = 0
               /\ trace' = trace
               /\ rooms_in_space' = rooms_in_space ]_vars

\* C8 witness: the operator answered "yes" to a list of at least one room and
\* the run ended without entering the update pass.
C8_Witness ==
    /\ choice = <<"y", "e", "s">>
    /\ rooms_in_space # <<>>
    /\ pc = "exited"
    /\ ~UpdateRuns

\* C9: the room whose joined-members listing is received is in the map after
\* the step if and only if the listing has exactly two members and every
\* member other than the acting user is in the roster.
C9_DmIffTwoMembersInRoster ==
    [][ InspectStep =>
          (HasKey(rooms_in_space', joined_rooms[room_j])
              <=> QualifiesAsDm(resp'["joined"])) ]_vars

\* C10: a qualifying room is recorded as "DM with <name>", the name being the
\* correspondent's display name in the room's own listing, or unset when the
\* listing has none; the scan goes on with the next joined room.
C10_DmNamedFromRoomResponse ==
    [][ (InspectStep /\ QualifiesAsDm(resp'["joined"])) =>
          LET joined == resp'["joined"]
              item == joined[Correspondant(joined)]
              name == IF "display_name" \in DOMAIN item.value
                      THEN item.value["display_name"] ELSE None
          IN  /\ HasKey(rooms_in_space', joined_rooms[room_j])
              /\ rooms_in_space'[KeyIndex(rooms_in_space', joined_rooms[room_j])].value
                    = <<"DM with ">> \o Str(name)
              /\ raised' = NoException
              /\ pc' = "scan" /\ room_j' = room_j + 1 ]_vars

\* the joined rooms, as a set
JoinedSet == { joined_rooms[k] : k \in 1..Len(joined_rooms) }
\* the items of the map d that are for room r
ItemsOf(d, r) == { i \in 1..Len(d) : d[i].key = r }
\* the joined-members requests issued for room r
MembersRequests(r) ==
    { i \in 1..Len(trace) : trace[i] = Request("GET", JoinedMembersPath(r)) }
\* the hierarchy response has been received and filtered in this step
HierarchyStep == pc = "hierarchy" /\ pc' = "roster"
\* room r is in the map with the name the hierarchy gave
FromHierarchy(r) ==
    \E i \in ItemsOf(rooms_in_space, r) : rooms_in_space[i].value = <<"Room ", r>>
\* the scan over the joined rooms has ended without an exception
ScanDone == pc \in {"prompt", "profile", "update"} \/ choice # None

C12_MapKeysDistinctAndJoined ==
    /\ \A i, j \in 1..Len(rooms_in_space) :
          i # j => rooms_in_space[i].key # rooms_in_space[j].key
    /\ Keys(rooms_in_space) \subseteq JoinedSet

\* C12 witness: the hierarchy listed the same joined room twice, and the map
\* built from it holds that room.
C12_Witness ==
    /\ pc = "roster"
    /\ Len(resp["rooms"]) = 2
    /\ resp["rooms"][1].room_id = resp["rooms"][2].room_id
    /\ HasKey(rooms_in_space, resp["rooms"][1].room_id)

\* the PUT requests sent for room r
PutsTo(r) ==
    { i \in 1..Len(trace) :
        trace[i].method = "PUT" /\ trace[i].url = UrlOf(MemberStatePath(r, user_id)) }
\* the step sends the PUT request of the room at put_i
PutStep == pc = "update" /\ Len(trace') = Len(trace) + 1
\* the update pass has run to its end
UpdateDone == pc = "exited" /\ ProfileRequested /\ raised = NoException

\* C13: during the update pass the rooms before put_i have received exactly
\* one PUT request each and the others none, and the progress indicator counts
\* the rooms attempted; the step that sends a PUT request never ends the run,
\* advances the progress indicator by one and moves to the next room whatever
\* the response, and prints the failure of that room exactly when the response
\* is not 200; when the pass has ended every room of the map has received
\* exactly one PUT request.
C13_EveryRoomAttemptedOnce ==
    /\ [](pc = "update" =>
            /\ tbar = put_i - 1
            /\ \A i \in 1..Len(rooms_in_space) :
                  Cardinality(PutsTo(rooms_in_space[i].key)) = IF i < put_i THEN 1 ELSE 0)
    /\ [][ PutStep =>
             /\ pc' = "update" /\ raised' = NoException
             /\ tbar' = tbar + 1
             /\ put_i' = put_i + 1
             /\ trace'[Len(trace')].url = UrlOf(MemberStatePath(rooms_in_space[put_i].key, user_id))
             /\ (trace'[Len(trace')].status # HttpOk) <=>
                   (\E k \in 1..Len(printed') :
                       /\ printed'[k].msg = "Failed to update"
                       /\ printed'[k].room_id = rooms_in_space[put_i].key) ]_vars
    /\ [](UpdateDone =>
            /\ tbar = Len(rooms_in_space)
            /\ \A i \in 1..Len(rooms_in_space) :
                  Cardinality(PutsTo(rooms_in_space[i].key)) = 1)

\* C13 witness: the pass has ended over two rooms; the first room's request
\* failed, the second room's request was sent all the same and succeeded, and
\* the progress indicator stands at two.
C13_Witness ==
    /\ UpdateDone
    /\ Len(rooms_in_space) = 2
    /\ tbar = 2
    /\ \E i \in PutsTo(rooms_in_space[1].key), j \in PutsTo(rooms_in_space[2].key) :
          i < j /\ trace[i].status # HttpOk /\ trace[j].status = HttpOk

\* the request is for a well-known document
IsWellKnown(req) == req.url[Len(req.url)] = "/.well-known/matrix/client"
\* the URL of the request is the base URL followed by a path
UsesBaseUrl(req) ==
    Len(req.url) > Len(base_url) /\ SubSeq(req.url, 1, Len(base_url)) = base_url
\* the step sends the well-known request
WellKnownStep == pc = "init" /\ Len(trace') = Len(trace) + 1

\* C14: the step that sends the well-known request goes on to the
\* joined-rooms request without an exception and sets the base URL: to
\* https://<domain> when the request fails, to m.homeserver.base_url of the
\* document when it returns 200; the next step sends the joined-rooms request
\* to that base URL; the base URL never changes afterwards; the first request
\* of a run is the well-known request, no later request is one, and every
\* later request goes to the base URL.
C14_WellKnownFallback ==
    /\ [][ WellKnownStep =>
             LET domain == Split(user_id, ":")[2] IN
             /\ Len(trace') = 1
             /\ trace'[1].method = "GET"
             /\ trace'[1].url = <<"https://">> \o domain \o <<"/.well-known/matrix/client">>
             /\ pc' = "joined_rooms" /\ raised' = NoException
             /\ IF trace'[1].status # HttpOk
                THEN base_url' = <<"https://">> \o domain
                ELSE base_url' = resp'["m_homeserver"]["base_url"] ]_vars
    /\ [][ (pc = "joined_rooms") =>
             trace' = Append(trace, [method |-> "GET", url |-> base_url \o JoinedRoomsPath]) ]_vars
    /\ [][ (base_url # None) => base_url' = base_url ]_vars
    /\ [](pc # "init" /\ raised # "RuntimeError" => Len(trace) >= 1)
    /\ [](\A i \in 1..Len(trace) :
            IF i = 1 THEN IsWellKnown(trace[i])
            ELSE ~IsWellKnown(trace[i]) /\ UsesBaseUrl(trace[i]))

\* C14 witness: the well-known request failed, the base URL is
\* https://<domain>, and the run went on to its end through discovery and an
\* update request sent to that base URL.
C14_Witness ==
    /\ pc = "exited"
    /\ base_url = <<"https://", "hs">>
    /\ Len(joined_rooms) = 2
    /\ PutRequested
    /\ \A i \in 2..Len(trace) : UsesBaseUrl(trace[i])

\* a request of the trace is the hierarchy request / a joined-members request
LastToken(req) == req.url[Len(req.url)]
\* the positions of the PUT requests in the trace
PutPositions == { i \in 1..Len(trace) : trace[i].method = "PUT" }
\* the discovery phase has run to its end: the joined rooms, the hierarchy and
\* the roster were requested and the scan has passed every joined room
DiscoveryDone ==
    /\ \E i \in 1..Len(trace) : trace[i].url = base_url \o JoinedRoomsPath
    /\ \E i \in 1..Len(trace) : LastToken(trace[i]) = "/hierarchy"
    /\ \E i \in 1..Len(trace) : LastToken(trace[i]) = "/joined_members"
    /\ room_j = Len(joined_rooms) + 1

\* C18: the target list printed before the prompt is the map, item by item,
\* and the map does not change from then on; in every state with a PUT request
\* in the trace the discovery phase had run to its end, the answer had been
\* read, and every request that is not a PUT precedes every PUT; every PUT is
\* for a key of the map, and when the update pass has ended every key of the
\* map has received one; a run that an exception ended has sent no PUT.
C18_PutsOnlyAfterDiscoveryAndAnswer ==
    /\ [](pc = "prompt" =>
            /\ Len(printed) = Len(rooms_in_space) + 1
            /\ \A i \in 1..Len(rooms_in_space) :
                  /\ printed[i + 1].room_id = rooms_in_space[i].key
                  /\ printed[i + 1].room_name = rooms_in_space[i].value)
    /\ [][ (pc \in {"prompt", "profile", "update"}) =>
             rooms_in_space' = rooms_in_space ]_vars
    /\ [](PutRequested =>
            /\ DiscoveryDone
            /\ Answered
            /\ ProfileRequested
            /\ \A i, j \in 1..Len(trace) : (i \in PutPositions /\ i < j) => j \in PutPositions)
    /\ [](\A i \in PutPositions :
            \E k \in 1..Len(rooms_in_space) : i \in PutsTo(rooms_in_space[k].key))
    /\ [](UpdateDone => \A k \in 1..Len(rooms_in_space) : PutsTo(rooms_in_space[k].key) # {})
    /\ [](raised # NoException => pc = "exited" /\ ~PutRequested)

\* C18 witness: the run ended after an update pass over a map of one room
\* while two rooms are joined: the one PUT is the last request of the trace,
\* after the discovery requests and the profile request.
C18_Witness ==
    /\ UpdateDone
    /\ Len(joined_rooms) = 2
    /\ Len(rooms_in_space) = 1
    /\ PutPositions = {Len(trace)}
    /\ DiscoveryDone

\* ======================================================================
\* Photo sorter: properties (checked under PhotoSpec)
\* ======================================================================
\* the run has ended without an exception
Successful == pc = "exited" /\ raised = NoException
\* <source>/<YYYY>/<MM> with the digits of the date group of the name
DirOfName(name) ==
    <<Source, SubSeq(Group1(name), 1, 4), SubSeq(Group1(name), 5, 6)>>

\* C15: after a successful run every entry whose name matched the pattern is
\* in <source>/<YYYY>/<MM>, YYYY and MM being the first four and the next two
\* digits of the date group of its own name, and every other entry (every name
\* beginning with "VID" among them) is still in the source directory.
C15_SortedByDateGroup ==
    Successful =>
        \A i \in 1..Len(files) :
            located[files[i]] = IF Matches(files[i]) THEN DirOfName(files[i])
                                ELSE <<Source>>

RECURSIVE BucketTotal(_)
\* the sum of the sizes of the buckets
BucketTotal(d) ==
    IF d = <<>> THEN 0 ELSE Len(Head(d).value) + BucketTotal(Tail(d))
\* the names of a listing that do not match the pattern
Rejected(l) == { i \in 1..Len(l) : ~Matches(l[i]) }
\* the scan has ended without an exception
ScanEnded == pc = "move" \/ (pc = "exited" /\ raised # "ValueError")

\* C16: during the scan the count is the number of entries less the names
\* rejected so far, and the buckets hold the names accepted so far; the count
\* printed when the scan ends is the sum of the sizes of the buckets and the
\* number of entries less the number of names that do not match, and stays so;
\* the progress bar never passes the count and stands at it when the move
\* phase has run to its end.
C16_CountIsBucketTotal ==
    /\ [](pc = "scan" =>
            LET scanned == SubSeq(files, 1, file_k - 1) IN
            /\ n_files = Len(files) - Cardinality(Rejected(scanned))
            /\ BucketTotal(files_to_move) = Len(scanned) - Cardinality(Rejected(scanned)))
    /\ [][ (pc = "scan" /\ pc' = "move") =>
             /\ printed'[1].n = BucketTotal(files_to_move')
             /\ printed'[1].n = Len(files') - Cardinality(Rejected(files')) ]_vars
    /\ [](ScanEnded =>
            /\ n_files = BucketTotal(files_to_move)
            /\ n_files = Len(files) - Cardinality(Rejected(files))
            /\ ticks <= n_files)
    /\ [](Successful => ticks = n_files)

\* C16 witness: of three entries one did not match and the other two went to
\* two buckets; the run ended with a count of two and two ticks.
C16_Witness ==
    /\ Successful
    /\ Len(files) = 3
    /\ Cardinality(Rejected(files)) = 1
    /\ Len(files_to_move) = 2
    /\ n_files = 2
    /\ ticks = 2

\* no directory has been created and every entry is in the source directory
NothingMoved ==
    /\ dirs = {}
    /\ \A f \in DOMAIN located : located[f] = <<Source>>
\* the listing holds a recognized name whose date group is no calendar date
HasBadDate ==
    \E i \in 1..Len(files) : Matches(files[i]) /\ ~ValidDate(Group1(files[i]))
\* some file has been moved and some recognized file has not
PartlyMoved ==
    /\ \E f \in DOMAIN located : located[f] # <<Source>>
    /\ \E f \in DOMAIN located : Matches(f) /\ located[f] = <<Source>>

====
